---- MODULE Spec2Model ----
(***************************************************************************)
(* Plant browser: the PlantBrowser component (both revisions), its         *)
(* useFavorites hook over localStorage, the debounced search, the          *)
(* infinite query over the Perenual species list, and the REST wrapper.    *)
(***************************************************************************)
EXTENDS Integers, Sequences, FiniteSets, TLC

VARIABLES
  revision,          \* which revision of the component is mounted
  route,             \* the router's current location
  uncaught,          \* openDetails calls whose promise was rejected, unhandled
  shownBefore,       \* history: what was on screen before showFavorites last changed
  lastOpened,        \* history: the plant of the last openDetails call
  twin,              \* the other revision, mounted alongside and given the same
                     \* events (the specification SpecRevisions)
  storage,           \* localStorage: a function from the keys that are set to their text
  favorites,         \* useFavorites: the favorites state
  favEffectPending,  \* the [favorites] effect has not yet run for the current value
  toggleLog,         \* history: the toggleFavorite calls since mount (last two)
  reloaded,          \* history: what the last page reload started from
  searchInput,       \* the text in the search box
  search,            \* the debounced search text used by the query
  timer,             \* the pending 400 ms timeout and the value its closure holds
  filters,           \* cycle, watering, sunlight, edible, poisonous, indoor, hardiness
  showFavorites,
  selectedPlant,
  detailsLoading,
  detailsInFlight,   \* fetchPlantDetails calls awaiting their response
  scrollIndex,       \* first row inside the virtualizer's window
  showScrollTop,
  cache,             \* the query client's cache: query key -> query state
  lastInput,         \* history: the last search-box event
  userEvents,        \* number of user events so far
  staleSettled,      \* history: a page arrived for a query that was not the current one
  call               \* the last call made to the REST wrapper
                     \* (the pure-function specification SpecApi)

vars == <<revision, twin, lastOpened, shownBefore, route, uncaught, storage,
          favorites, favEffectPending, toggleLog, reloaded, searchInput,
          search, timer, filters, showFavorites, selectedPlant,
          detailsLoading, detailsInFlight, scrollIndex, showScrollTop, cache,
          lastInput, userEvents, staleSettled, call>>

favVars == <<storage, favorites, favEffectPending, toggleLog, reloaded>>
uiVars == <<revision, twin, lastOpened, shownBefore, route, uncaught,
            searchInput, search, timer, filters, showFavorites,
            selectedPlant, detailsLoading, detailsInFlight, scrollIndex,
            showScrollTop, cache, lastInput, userEvents, staleSettled>>

----------------------------------------------------------------------------
(* Bounds *)

\* plants per page of the species list
PerPage == 2
\* last_page reported by the server for a non-empty result
LastPage == 2
\* rows inside the virtualizer's window (viewport plus overscan)
VisibleRows == 1
\* how many of a select's options besides 'any' are tried
MaxOptions == 1
\* length of the arrays found in storage at start-up
MaxStored == 2
\* user events per run
MaxUserEvents == 2
\* plant ids toggled in the favorites-only specification
MaxFavId == 2

Min(a, b) == IF a < b THEN a ELSE b
Max(a, b) == IF a > b THEN a ELSE b

PlantIds == 1..(PerPage * LastPage)

----------------------------------------------------------------------------
(* JSON text, as the sequence of its characters.  Only arrays of numbers   *)
(* and texts that are no JSON at all occur.                                *)

DigitChars == <<"0", "1", "2", "3", "4", "5", "6", "7", "8", "9">>

RECURSIVE NumberChars(_)
NumberChars(n) ==
  IF n < 10 THEN <<DigitChars[n + 1]>>
  ELSE NumberChars(n \div 10) \o <<DigitChars[(n % 10) + 1]>>

RECURSIVE JoinItems(_)
JoinItems(items) ==
  IF items = <<>> THEN <<>>
  ELSE IF Len(items) = 1 THEN NumberChars(items[1])
  ELSE NumberChars(items[1]) \o <<",">> \o JoinItems(Tail(items))

\* JSON.stringify of an array of numbers
JSONstringify(items) == <<"[">> \o JoinItems(items) \o <<"]">>

IsDigit(c) == \E d \in 1..10 : DigitChars[d] = c
DigitValue(c) == (CHOOSE d \in 1..10 : DigitChars[d] = c) - 1

\* index of the first character at or after i that is no digit
RECURSIVE DigitsEnd(_, _)
DigitsEnd(text, i) ==
  IF i <= Len(text) /\ IsDigit(text[i]) THEN DigitsEnd(text, i + 1) ELSE i

RECURSIVE DigitsValue(_, _, _)
DigitsValue(text, i, j) ==
  IF j <= i THEN 0
  ELSE DigitsValue(text, i, j - 1) * 10 + DigitValue(text[j - 1])

SyntaxError == [ok |-> FALSE, value |-> <<>>]

\* the array elements starting at position i, up to the closing bracket,
\* which must be the last character
RECURSIVE ParseItems(_, _, _)
ParseItems(text, i, acc) ==
  LET j == DigitsEnd(text, i) IN
  IF j = i THEN SyntaxError                              \* a number is expected
  ELSE IF j - i > 1 /\ text[i] = "0" THEN SyntaxError    \* no leading zero
  ELSE IF j > Len(text) THEN SyntaxError
  ELSE LET acc2 == Append(acc, DigitsValue(text, i, j)) IN
       IF text[j] = "]"
         THEN IF j = Len(text) THEN [ok |-> TRUE, value |-> acc2] ELSE SyntaxError
       ELSE IF text[j] = "," THEN ParseItems(text, j + 1, acc2)
       ELSE SyntaxError

\* JSON.parse: the array, or a SyntaxError
JSONparse(text) ==
  IF Len(text) < 2 \/ text[1] # "[" THEN SyntaxError
  ELSE IF text = <<"[", "]">> THEN [ok |-> TRUE, value |-> <<>>]
  ELSE ParseItems(text, 2, <<>>)

----------------------------------------------------------------------------
(* useFavorites *)

FAVORITES_KEY == "plant_favorites"

\* localStorage.getItem: null (NoItem, which is no text) when the key is unset
NoItem == <<"(null)">>
getItem(store, key) == IF key \in DOMAIN store THEN store[key] ELSE NoItem

\* localStorage.setItem
setItem(store, key, text) ==
  [k \in DOMAIN store \cup {key} |-> IF k = key THEN text ELSE store[k]]

\* the useState initialiser: JSON.parse(getItem(KEY) || '[]'), [] when it throws
useFavoritesInit_IgnoresStore(store) == <<>>
useFavoritesInit(store) ==
  LET item == getItem(store, FAVORITES_KEY)
      text == IF item = NoItem \/ item = <<>> THEN <<"[", "]">> ELSE item
      parsed == JSONparse(text)
  IN IF parsed.ok THEN parsed.value ELSE <<>>

\* the effect on [favorites]
persistEffect_KeepsStored(store, favs) ==
  IF FAVORITES_KEY \in DOMAIN store THEN store
  ELSE setItem(store, FAVORITES_KEY, JSONstringify(favs))
persistEffect_OnlyWhenNonEmpty(store, favs) ==
  IF favs = <<>> THEN store ELSE setItem(store, FAVORITES_KEY, JSONstringify(favs))
persistEffect(store, favs) == setItem(store, FAVORITES_KEY, JSONstringify(favs))

includes(list, x) == \E i \in 1..Len(list) : list[i] = x

RECURSIVE filterOut(_, _)
filterOut(list, x) ==
  IF list = <<>> THEN <<>>
  ELSE IF Head(list) # x THEN <<Head(list)>> \o filterOut(Tail(list), x)
  ELSE filterOut(Tail(list), x)

\* the updater passed to setFavorites
toggleFavorite_AlwaysAppends(favs, id) == Append(favs, id)
toggleFavorite(favs, id) ==
  IF includes(favs, id) THEN filterOut(favs, id) ELSE Append(favs, id)

NoReload == [done |-> FALSE, persisted |-> FALSE, toggles |-> 0, before |-> <<>>]

LastTwo(log) == IF Len(log) > 2 THEN SubSeq(log, Len(log) - 1, Len(log)) ELSE log

\* click on a card's star button; React flushes the pending effects of the
\* previous render before it handles the click
ToggleFavorite(id) ==
  /\ ~favEffectPending
  /\ favorites' = toggleFavorite(favorites, id)
  /\ favEffectPending' = TRUE
  /\ toggleLog' = LastTwo(Append(toggleLog, [id |-> id, before |-> favorites]))
  /\ reloaded' = NoReload
  /\ UNCHANGED storage

\* the effect runs after the render that follows a change of favorites
PersistFavorites ==
  /\ favEffectPending
  /\ storage' = persistEffect(storage, favorites)
  /\ favEffectPending' = FALSE
  /\ UNCHANGED <<favorites, toggleLog, reloaded>>

\* the component is mounted again: state is rebuilt from storage
RemountFavorites ==
  /\ favorites' = useFavoritesInit(storage)
  /\ favEffectPending' = TRUE
  /\ toggleLog' = <<>>
  /\ reloaded' = [done |-> TRUE, persisted |-> ~favEffectPending,
                  toggles |-> Len(toggleLog), before |-> favorites]
  /\ UNCHANGED storage

----------------------------------------------------------------------------
(* The REST wrapper (perenual.ts) *)

API_KEY == "VITE_API_KEY"
BASE_URL == "https://perenual.com/api/v2"

Undefined == <<>>
Some(v) == <<v>>
IsDefined(opt) == opt # Undefined

RECURSIVE String(_)
\* String(n) for a page number or an id
String(n) ==
  IF n < 10 THEN DigitChars[n + 1]
  ELSE String(n \div 10) \o DigitChars[(n % 10) + 1]

\* params.append when the argument is truthy
AppendIfTruthy(name, opt) ==
  IF IsDefined(opt) /\ opt[1] # "" THEN <<<<name, opt[1]>>>> ELSE <<>>

\* params.append(name, flag ? '1' : '0') when the argument is not undefined
AppendIfDefined(name, opt) ==
  IF IsDefined(opt) THEN <<<<name, IF opt[1] THEN "1" ELSE "0">>>> ELSE <<>>

\* the URLSearchParams fetchPlants builds, as its list of (name, value) pairs
fetchPlantsParams(args) ==
  <<<<"key", API_KEY>>, <<"page", String(args.page)>>>>
  \o AppendIfTruthy("q", Some(args.q))
  \o AppendIfTruthy("order", Some(args.order))
  \o AppendIfDefined("edible", args.edible)
  \o AppendIfDefined("poisonous", args.poisonous)
  \o AppendIfTruthy("cycle", args.cycle)
  \o AppendIfTruthy("watering", args.watering)
  \o AppendIfTruthy("sunlight", args.sunlight)
  \o AppendIfDefined("indoor", args.indoor)
  \o AppendIfTruthy("hardiness", args.hardiness)

ApiFunctions ==
  {"fetchPlants", "fetchPlantDetails", "fetchDiseaseList", "fetchCareGuideList",
   "fetchHardinessMap"}

\* the message of the Error each function throws on a response that is not ok
FailureMessage(fn) ==
  CASE fn = "fetchPlants" -> "Failed to fetch plant list"
    [] fn = "fetchPlantDetails" -> "Failed to fetch plant details"
    [] fn = "fetchDiseaseList" -> "Failed to fetch disease list"
    [] fn = "fetchCareGuideList" -> "Failed to fetch care guide list"
    [] fn = "fetchHardinessMap" -> "Failed to fetch hardiness map"

RECURSIVE ParamsToString(_)
\* URLSearchParams.toString(): name=value joined by & (no value here needs escaping)
ParamsToString(params) ==
  IF params = <<>> THEN ""
  ELSE IF Len(params) = 1 THEN params[1][1] \o "=" \o params[1][2]
  ELSE params[1][1] \o "=" \o params[1][2] \o "&" \o ParamsToString(Tail(params))

\* fetchPlants' defaults: page = 1, q = '', order = '', every filter undefined
DefaultArgs(page) ==
  [page |-> page, q |-> "", order |-> "", cycle |-> Undefined,
   watering |-> Undefined, sunlight |-> Undefined, edible |-> Undefined,
   poisonous |-> Undefined, indoor |-> Undefined, hardiness |-> Undefined]

\* the URL fetchPlants requests
fetchPlantsUrl(params) == BASE_URL \o "/species-list?" \o ParamsToString(params)

\* the URL each function requests, for the page or id n and no other argument
RequestUrl(fn, n) ==
  CASE fn = "fetchPlants" -> fetchPlantsUrl(fetchPlantsParams(DefaultArgs(n)))
    [] fn = "fetchPlantDetails" ->
         BASE_URL \o "/species/details/" \o String(n) \o "?key=" \o API_KEY
    [] fn = "fetchDiseaseList" ->
         "https://perenual.com/api/pest-disease-list?"
           \o ParamsToString(<<<<"key", API_KEY>>, <<"page", String(n)>>>>)
    [] fn = "fetchCareGuideList" ->
         "https://perenual.com/api/species-care-guide-list?"
           \o ParamsToString(<<<<"key", API_KEY>>, <<"page", String(n)>>>>)
    [] fn = "fetchHardinessMap" ->
         "https://perenual.com/api/hardiness-map?"
           \o ParamsToString(<<<<"key", API_KEY>>, <<"species_id", String(n)>>>>)

\* an HTTP response: res.ok is true for the statuses 200..299
HttpStatuses == {200, 204, 404, 429, 500}
ResponseOk(status) == status >= 200 /\ status <= 299

NoValue == [data |-> <<>>, current_page |-> 0, last_page |-> 0]

Rejected(message) == [kind |-> "error", message |-> message, data |-> NoValue]
Resolved(value) == [kind |-> "data", message |-> "", data |-> value]

\* res.json(): the parsed body, or a rejection when the body is no JSON
resJson(body) ==
  IF body.parseable THEN Resolved(body.value) ELSE Rejected("SyntaxError")

\* const res = await fetch(url); if (!res.ok) throw new Error(...);
\* return res.json();   (fetch itself rejects when the network fails)
apiOutcome_IgnoresStatus(fn, response) ==
  IF response.failed THEN Rejected("TypeError") ELSE resJson(response.body)
apiOutcome(fn, response) ==
  IF response.failed THEN Rejected("TypeError")
  ELSE IF ~ResponseOk(response.status) THEN Rejected(FailureMessage(fn))
  ELSE resJson(response.body)

----------------------------------------------------------------------------
(* The component's state and the values it derives while rendering *)

\* the location the component is rendered at
IndexRoute == "/"

Revisions == {"effect", "hook"}   \* PlantBrowser.tsx; the useDebouncedValue revision

CYCLE_OPTIONS == <<"any", "perennial", "annual", "biennial", "biannual">>
WATERING_OPTIONS == <<"any", "frequent", "average", "minimum", "none">>
SUNLIGHT_OPTIONS == <<"any", "full_shade", "part_shade", "sun-part_shade", "full_sun">>
HARDINESS_OPTIONS ==
  <<"any", "1", "2", "3", "4", "5", "6", "7", "8", "9", "10", "11", "12", "13">>

\* the options of a select that the model tries
Tried(options) == {options[i] : i \in 1..Min(Len(options), 1 + MaxOptions)}

\* the texts typed into the search box
SearchTexts == {"", "a"}

FilterNames ==
  {"cycle", "watering", "sunlight", "edible", "poisonous", "indoor", "hardiness"}

FilterValues(name) ==
  CASE name = "cycle" -> Tried(CYCLE_OPTIONS)
    [] name = "watering" -> Tried(WATERING_OPTIONS)
    [] name = "sunlight" -> Tried(SUNLIGHT_OPTIONS)
    [] name = "hardiness" -> Tried(HARDINESS_OPTIONS)
    [] OTHER -> BOOLEAN

InitialFilters ==
  [cycle |-> "any", watering |-> "any", sunlight |-> "any", edible |-> FALSE,
   poisonous |-> FALSE, indoor |-> FALSE, hardiness |-> "any"]

\* queryKey: ['plants', search, cycle, watering, sunlight, edible, poisonous,
\* indoor, hardiness]
queryKey_WithShowFavorites(s, f) ==
  <<"plants", s, f.cycle, f.watering, f.sunlight, f.edible, f.poisonous, f.indoor,
    f.hardiness, showFavorites>>
queryKey(s, f) ==
  <<"plants", s, f.cycle, f.watering, f.sunlight, f.edible, f.poisonous, f.indoor,
    f.hardiness>>

QueryKey == queryKey(search, filters)

\* the state a key was built from (the closure of the render that built it)
KeySearch(key) == key[2]
KeyFilters(key) ==
  [cycle |-> key[3], watering |-> key[4], sunlight |-> key[5], edible |-> key[6],
   poisonous |-> key[7], indoor |-> key[8], hardiness |-> key[9]]

AnyToUndefined(v) == IF v = "any" THEN Undefined ELSE Some(v)
TrueOrUndefined(b) == IF b THEN Some(TRUE) ELSE Undefined

\* the argument queryFn passes to fetchPlants
queryFnArgs_PassesSwitches(s, f, pageParam) ==
  [page |-> pageParam, q |-> s, order |-> "",
   cycle |-> AnyToUndefined(f.cycle), watering |-> AnyToUndefined(f.watering),
   sunlight |-> AnyToUndefined(f.sunlight), edible |-> Some(f.edible),
   poisonous |-> Some(f.poisonous), indoor |-> Some(f.indoor),
   hardiness |-> AnyToUndefined(f.hardiness)]
queryFnArgs(s, f, pageParam) ==
  [page |-> pageParam, q |-> s, order |-> "",
   cycle |-> AnyToUndefined(f.cycle), watering |-> AnyToUndefined(f.watering),
   sunlight |-> AnyToUndefined(f.sunlight), edible |-> TrueOrUndefined(f.edible),
   poisonous |-> TrueOrUndefined(f.poisonous), indoor |-> TrueOrUndefined(f.indoor),
   hardiness |-> AnyToUndefined(f.hardiness)]

\* the request the query function of the query `key` issues for a page; the
\* function and the key come from the same render
queryFnRequest_ReadsLiveState(key, pageParam) ==
  fetchPlantsParams(queryFnArgs(search, filters, pageParam))
queryFnRequest(key, pageParam) ==
  fetchPlantsParams(queryFnArgs(KeySearch(key), KeyFilters(key), pageParam))

\* getNextPageParam
getNextPageParam_IgnoresLastPage(lastPage) == Some(lastPage.current_page + 1)
getNextPageParam(lastPage) ==
  IF lastPage.current_page < lastPage.last_page
    THEN Some(lastPage.current_page + 1)
    ELSE Undefined

----------------------------------------------------------------------------
(* The server *)

ParamNames(request) == {request[i][1] : i \in 1..Len(request)}
ParamValue(request, name) ==
  request[CHOOSE i \in 1..Len(request) : request[i][1] = name][2]

\* the plants on page n of a non-empty result
PlantsOnPage(n) == [i \in 1..PerPage |-> (n - 1) * PerPage + i]

\* the body of the species list for a request: no indoor plant is known, any
\* other result has LastPage pages
ServerPage(request, n) ==
  IF "indoor" \in ParamNames(request) /\ ParamValue(request, "indoor") = "1"
    THEN [data |-> <<>>, current_page |-> 1, last_page |-> 1]
    ELSE [data |-> PlantsOnPage(n), current_page |-> n, last_page |-> LastPage]

NoBody == [parseable |-> FALSE, value |-> NoValue]

ListResponses(request, n) ==
  { [failed |-> FALSE, status |-> 200,
     body |-> [parseable |-> TRUE, value |-> ServerPage(request, n)]],
    [failed |-> FALSE, status |-> 500, body |-> NoBody],
    [failed |-> TRUE, status |-> 0, body |-> NoBody] }

----------------------------------------------------------------------------
(* The query client (new QueryClient(), all options at their defaults) and   *)
(* the infinite query                                                        *)

\* the client's default `retry`: a failed query function is called again 3 times
DefaultRetry == 3

shouldRetry_Never(failureCount) == FALSE
shouldRetry(failureCount) == failureCount < DefaultRetry

NoRequest == <<>>

\* the state of a query that has just been created and is fetching its first page
FirstFetch(key) ==
  [status |-> "pending", pages |-> <<>>, fetchStatus |-> "fetching",
   direction |-> "initial", pageParam |-> 1, request |-> queryFnRequest(key, 1),
   fetchFailureCount |-> 0, fresh |-> <<>>, retryCancelled |-> FALSE]

\* a fetch starts on a query that is idle
StartFetch(key, q, direction, pageParam) ==
  [q EXCEPT !.status = IF q.pages = <<>> THEN "pending" ELSE q.status,
            !.fetchStatus = "fetching", !.direction = direction,
            !.pageParam = pageParam, !.request = queryFnRequest(key, pageParam),
            !.fetchFailureCount = 0, !.fresh = <<>>, !.retryCancelled = FALSE]

\* the observer moves to `key`: a new query fetches; a cached one is stale at once
\* (staleTime 0) and is fetched again unless it is fetching already, in which
\* case its retries go on
Observe(c, key) ==
  IF key \notin DOMAIN c
    THEN [k \in DOMAIN c \cup {key} |-> IF k = key THEN FirstFetch(key) ELSE c[k]]
  ELSE IF c[key].fetchStatus = "fetching"
    THEN [c EXCEPT ![key].retryCancelled = FALSE]
  ELSE IF c[key].pages = <<>>
    THEN [c EXCEPT ![key] = StartFetch(key, c[key], "initial", 1)]
  ELSE [c EXCEPT ![key] = StartFetch(key, c[key], "refetch", 1)]

\* the observer leaves `key`: the query has no observer left, and a fetch in
\* flight goes on but is not retried when it fails
Unobserve(c, key) ==
  IF c[key].fetchStatus = "fetching"
    THEN [c EXCEPT ![key].retryCancelled = TRUE]
    ELSE c

\* a render with another query key
MoveObserver(c, from, to) == IF to = from THEN c ELSE Observe(Unobserve(c, from), to)

\* the page (and its page param) the cache keeps for a resolved call of the query
\* function; `request` records the request it answers
PageOf(q, value) ==
  [request |-> q.request, pageParam |-> q.pageParam, data |-> value.data,
   current_page |-> value.current_page, last_page |-> value.last_page]

Idle(q) ==
  [q EXCEPT !.fetchStatus = "idle", !.direction = "none", !.pageParam = 0,
            !.request = NoRequest, !.fresh = <<>>, !.retryCancelled = FALSE]

\* the query function rejected: retried, or the query ends in error
OnRejected(key, q) ==
  IF shouldRetry(q.fetchFailureCount) /\ ~q.retryCancelled
    THEN [q EXCEPT !.fetchFailureCount = @ + 1,
                   \* the whole fetch function runs again: a refetch restarts
                   !.pageParam = IF q.direction = "refetch" THEN 1 ELSE @,
                   !.request = IF q.direction = "refetch"
                                 THEN queryFnRequest(key, 1) ELSE @,
                   !.fresh = <<>>]
    ELSE [Idle(q) EXCEPT !.fetchFailureCount = q.fetchFailureCount + 1,
                         !.status = "error"]

\* the query function resolved with a page
OnResolved(key, q, value) ==
  LET page == PageOf(q, value) IN
  CASE q.direction = "initial" ->
         [Idle(q) EXCEPT !.status = "success", !.pages = <<page>>]
    [] q.direction = "forward" ->
         [Idle(q) EXCEPT !.status = "success", !.pages = Append(q.pages, page)]
    [] q.direction = "refetch" ->
         LET got == Append(q.fresh, page)
             next == getNextPageParam(page)
         IN IF Len(got) < Len(q.pages) /\ IsDefined(next)
              THEN [q EXCEPT !.fresh = got, !.pageParam = next[1],
                             !.request = queryFnRequest(key, next[1])]
              ELSE [Idle(q) EXCEPT !.status = "success", !.pages = got]

\* what the observer of the current key returns
Query == cache[QueryKey]
status == Query.status
data == Query.pages
hasNextPage == data # <<>> /\ IsDefined(getNextPageParam(data[Len(data)]))
isFetchingNextPage == Query.fetchStatus = "fetching" /\ Query.direction = "forward"

RECURSIVE flatMap(_)
flatMap(pages) ==
  IF pages = <<>> THEN <<>> ELSE Head(pages).data \o flatMap(Tail(pages))

allPlants == flatMap(data)

filteredPlants_KeepsAll(plants, show, favs) == plants
filteredPlants(plants, show, favs) ==
  IF show THEN SelectSeq(plants, LAMBDA p : includes(favs, p)) ELSE plants

FilteredPlants == filteredPlants(allPlants, showFavorites, favorites)

NoShown == [toggled |-> FALSE, list |-> <<>>, plants |-> <<>>, favs |-> <<>>]

\* the virtualizer: count rows, of which the window holds VisibleRows
count == IF hasNextPage THEN Len(FilteredPlants) + 1 ELSE Len(FilteredPlants)
FirstIndex == Min(scrollIndex, Max(0, count - VisibleRows))
LastItemIndex == Min(count - 1, FirstIndex + VisibleRows - 1)

\* the plants whose cards are rendered (none while the skeletons are shown)
RenderedPlants ==
  IF status = "pending" THEN {}
  ELSE {FilteredPlants[i + 1] : i \in {r \in FirstIndex..LastItemIndex :
                                          r <= Len(FilteredPlants) - 1}}

\* what the list area renders: the skeleton grid, the empty text, or the rows
\* of the virtualizer; `error` of the query is not read anywhere
ListArea_ShowsError ==
  IF status = "pending" THEN "skeletons"
  ELSE IF status = "error" THEN "error"
  ELSE IF Len(FilteredPlants) = 0 THEN "No plants found."
  ELSE "rows"
ListArea ==
  IF status = "pending" THEN "skeletons"
  ELSE IF Len(FilteredPlants) = 0 THEN "No plants found."
  ELSE "rows"

----------------------------------------------------------------------------
(* Mounting *)

EmptyStore == [k \in {} |-> <<>>]
EmptyCache == [k \in {} |-> <<>>]

NoTimer == [pending |-> FALSE, value |-> ""]
\* setTimeout(() => setSearch(value), 400), replacing the timeout before it
StartTimer_StaleClosure(value) == [pending |-> TRUE, value |-> ""]
StartTimer(value) == [pending |-> TRUE, value |-> value]

NoResponse == [failed |-> FALSE, status |-> 0, body |-> NoBody]

NoCall ==
  [fn |-> "none", n |-> 0, search |-> "", filters |-> InitialFilters,
   request |-> NoRequest, url |-> "", response |-> NoResponse,
   outcome |-> Rejected(""), toasts |-> <<>>]

InitialKey == queryKey("", InitialFilters)

\* the other revision right after its first render
TwinInit ==
  [search |-> "", timer |-> StartTimer(""), cache |-> Observe(EmptyCache, InitialKey)]

\* the state right after the first render, its effects not yet run, with
\* `store` as the content of localStorage
InitMounted(store) ==
  /\ revision \in Revisions
  /\ route = IndexRoute
  /\ uncaught = 0
  /\ shownBefore = NoShown
  /\ lastOpened = Undefined
  /\ storage = store
  /\ favorites = useFavoritesInit(storage)
  /\ favEffectPending = TRUE
  /\ toggleLog = <<>>
  /\ reloaded = NoReload
  /\ searchInput = ""
  /\ search = ""
  /\ timer = StartTimer("")
  /\ filters = InitialFilters
  /\ showFavorites = FALSE
  /\ selectedPlant = Undefined
  /\ detailsLoading = FALSE
  /\ detailsInFlight = <<>>
  /\ scrollIndex = 0
  /\ showScrollTop = FALSE
  /\ cache = Observe(EmptyCache, InitialKey)
  /\ twin = TwinInit
  /\ lastInput = "none"
  /\ userEvents = 0
  /\ staleSettled = FALSE
  /\ call = NoCall

Init == InitMounted(EmptyStore)

\* every event handler and every re-render runs after the pending effects of the
\* previous render
UserEvent ==
  /\ ~favEffectPending
  /\ userEvents < MaxUserEvents
  /\ userEvents' = userEvents + 1

----------------------------------------------------------------------------
(* Search box, filters and the debounce *)

\* the timeout after the Clear button: the effect runs again only when the
\* text changed
timerAfterClear(input, t) == IF input # "" THEN StartTimer("") ELSE t

\* the timeout after a filter changed: the filters are dependencies of the
\* effect revision's effect, and not of useDebouncedValue's
timerAfterFilter_DropsTimer(rev, input, t) == IF rev = "effect" THEN NoTimer ELSE t
timerAfterFilter(rev, input, t) == IF rev = "effect" THEN StartTimer(input) ELSE t

\* <Input onChange={e => setSearchInput(e.target.value)}>
TypeSearch(text) ==
  /\ UserEvent
  /\ text # searchInput
  /\ searchInput' = text
  /\ timer' = StartTimer(text)
  /\ lastInput' = "type"
  /\ UNCHANGED <<favVars, revision, twin, lastOpened, shownBefore, route,
                 uncaught, search, filters, showFavorites, selectedPlant,
                 detailsLoading, detailsInFlight, scrollIndex, showScrollTop,
                 cache, call, staleSettled>>

\* <Button onClick={() => setSearchInput('')}>Clear</Button>
ClearSearch ==
  /\ UserEvent
  /\ searchInput' = ""
  /\ timer' = timerAfterClear(searchInput, timer)
  /\ lastInput' = "clear"
  /\ UNCHANGED <<favVars, revision, twin, lastOpened, shownBefore, route,
                 uncaught, search, filters, showFavorites, selectedPlant,
                 detailsLoading, detailsInFlight, scrollIndex, showScrollTop,
                 cache, call, staleSettled>>

\* a select's onValueChange or a switch's onCheckedChange: the key changes in the
\* same render; only the effect revision restarts the timeout
SetFilter(name, value) ==
  /\ UserEvent
  /\ value # filters[name]
  /\ filters' = [filters EXCEPT ![name] = value]
  /\ timer' = timerAfterFilter(revision, searchInput, timer)
  /\ cache' = MoveObserver(cache, QueryKey, queryKey(search, filters'))
  /\ UNCHANGED <<favVars, revision, twin, lastOpened, shownBefore, route,
                 uncaught, searchInput, search, showFavorites, selectedPlant,
                 detailsLoading, detailsInFlight, scrollIndex, showScrollTop,
                 lastInput, call, staleSettled>>

\* what the timeout's callback stores as the search text
debounced_SkipsEmpty(value, current) == IF value = "" THEN current ELSE value
debounced(value, current) == value

\* the timeout fires
DebounceFire ==
  /\ ~favEffectPending
  /\ timer.pending
  /\ search' = debounced(timer.value, search)
  /\ timer' = NoTimer
  /\ cache' = MoveObserver(cache, QueryKey, queryKey(search', filters))
  /\ UNCHANGED <<favVars, revision, twin, lastOpened, shownBefore, route,
                 uncaught, searchInput, filters, showFavorites, selectedPlant,
                 detailsLoading, detailsInFlight, scrollIndex, showScrollTop,
                 lastInput, userEvents, call, staleSettled>>

\* <Button onClick={() => setShowFavorites(f => !f)}>
ToggleShowFavorites ==
  /\ UserEvent
  /\ showFavorites' = ~showFavorites
  /\ shownBefore' = [toggled |-> TRUE, list |-> FilteredPlants,
                     plants |-> allPlants, favs |-> favorites]
  /\ UNCHANGED <<favVars, revision, twin, lastOpened, route, uncaught,
                 searchInput, search, timer, filters, selectedPlant,
                 detailsLoading, detailsInFlight, scrollIndex, showScrollTop,
                 cache, lastInput, call, staleSettled>>

\* the star button of a rendered card
ClickFavorite(id) ==
  /\ UserEvent
  /\ id \in RenderedPlants
  /\ ToggleFavorite(id)
  /\ UNCHANGED <<revision, twin, lastOpened, shownBefore, route, uncaught,
                 searchInput, search, timer, filters, showFavorites,
                 selectedPlant, detailsLoading, detailsInFlight, scrollIndex,
                 showScrollTop, cache, lastInput, call, staleSettled>>

\* the favorites effect, in the full component
PersistEffect ==
  /\ PersistFavorites
  /\ UNCHANGED <<uiVars, call>>

----------------------------------------------------------------------------
(* The list query *)

\* fetchNextPage(): a fetch in flight on a query that has data is cancelled
\* (cancelRefetch), then the next page is fetched
fetchNextPage_FirstPage(key, q) == StartFetch(key, q, "forward", 1)
fetchNextPage(key, q) ==
  StartFetch(key, q, "forward", getNextPageParam(q.pages[Len(q.pages)])[1])

\* the condition under which the infinite-scroll effect calls fetchNextPage
shouldFetchNext_WhileFetching(lastIndex, length, hasNext, fetchingNext) ==
  lastIndex >= length - 1 /\ hasNext
shouldFetchNext(lastIndex, length, hasNext, fetchingNext) ==
  lastIndex >= length - 1 /\ hasNext /\ ~fetchingNext

\* the infinite-scroll effect
InfiniteScrollTrigger ==
  /\ ~favEffectPending
  /\ count > 0                                        \* if (!lastItem) return
  /\ shouldFetchNext(LastItemIndex, Len(FilteredPlants), hasNextPage,
                     isFetchingNextPage)
  /\ cache' = [cache EXCEPT ![QueryKey] = fetchNextPage(QueryKey, Query)]
  /\ UNCHANGED <<favVars, revision, twin, lastOpened, shownBefore, route,
                 uncaught, searchInput, search, timer, filters, showFavorites,
                 selectedPlant, detailsLoading, detailsInFlight, scrollIndex,
                 showScrollTop, lastInput, userEvents, call, staleSettled>>

Toast(type, title, description) ==
  [type |-> type, title |-> title, description |-> description]

FetchingToast == Toast("message", "Fetching plants from API...", "")
NoPlantsToast ==
  Toast("error", "No plants found for the current filters.",
        "Try adjusting your search or filters.")
\* toast.error('API Error', { description: err?.message || 'Failed to fetch plants.' })
ApiErrorToast(message) ==
  Toast("error", "API Error", IF message # "" THEN message ELSE "Failed to fetch plants.")

\* the query function of the revision with toasts, around the outcome of its
\* fetchPlants call: the toasts it shows and how its own promise settles
toastQueryFn_SwallowsError(outcome) ==
  IF outcome.kind = "error"
    THEN [toasts |-> <<FetchingToast, ApiErrorToast(outcome.message)>>,
          outcome |-> Resolved([data |-> <<>>, current_page |-> 1, last_page |-> 1])]
  ELSE [toasts |-> IF outcome.data.data = <<>> THEN <<FetchingToast, NoPlantsToast>>
                   ELSE <<FetchingToast>>,
        outcome |-> outcome]
toastQueryFn(outcome) ==
  IF outcome.kind = "error"
    THEN [toasts |-> <<FetchingToast, ApiErrorToast(outcome.message)>>,     \* catch
          outcome |-> outcome]                                              \* throw err
  ELSE [toasts |-> IF outcome.data.data = <<>> THEN <<FetchingToast, NoPlantsToast>>
                   ELSE <<FetchingToast>>,
        outcome |-> outcome]                                                \* return res

\* how the query function of a revision settles on a response to its request
queryFnOutcome(rev, response) ==
  IF rev = "hook" THEN toastQueryFn(apiOutcome("fetchPlants", response)).outcome
  ELSE apiOutcome("fetchPlants", response)

\* the query `key` of the cache c after its query function settled
settled(c, key, outcome) ==
  [c EXCEPT ![key] = IF outcome.kind = "error" THEN OnRejected(key, @)
                     ELSE OnResolved(key, @, outcome.data)]

\* the response to the request of the query `key` arrives
FetchSettle(key, response) ==
  /\ ~favEffectPending
  /\ cache[key].fetchStatus = "fetching"
  /\ LET outcome == queryFnOutcome(revision, response) IN
     /\ cache' = settled(cache, key, outcome)
     /\ staleSettled' = (staleSettled \/ (key # QueryKey /\ outcome.kind = "data"))
  /\ UNCHANGED <<favVars, revision, twin, lastOpened, shownBefore, route,
                 uncaught, searchInput, search, timer, filters, showFavorites,
                 selectedPlant, detailsLoading, detailsInFlight, scrollIndex,
                 showScrollTop, lastInput, userEvents, call>>

----------------------------------------------------------------------------
(* Scrolling *)

RowHeight == 112
ScrollTopThreshold == 200

\* the list is scrolled so that row `first` is the first one in the window
Scroll(first) ==
  /\ UserEvent
  /\ first \in 0..Max(0, count - VisibleRows)
  /\ first # FirstIndex
  /\ scrollIndex' = first
  /\ showScrollTop' = (first * RowHeight > ScrollTopThreshold)
  /\ UNCHANGED <<favVars, revision, twin, lastOpened, shownBefore, route,
                 uncaught, searchInput, search, timer, filters, showFavorites,
                 selectedPlant, detailsLoading, detailsInFlight, cache,
                 lastInput, call, staleSettled>>

----------------------------------------------------------------------------
(* The details dialog *)

DetailsResponses(id) ==
  { [failed |-> FALSE, status |-> 200,
     body |-> [parseable |-> TRUE, value |-> [id |-> id]]],
    [failed |-> FALSE, status |-> 404, body |-> NoBody] }

DialogOpen == IsDefined(selectedPlant) \/ detailsLoading

\* what the dialog renders: nothing when closed, the skeleton while loading or
\* with no plant selected, else the selected plant's details
DialogView ==
  IF ~DialogOpen THEN "closed"
  ELSE IF detailsLoading \/ ~IsDefined(selectedPlant) THEN "skeleton"
  ELSE "details"

\* the details on screen, if any
DialogDetails == IF DialogView = "details" THEN selectedPlant ELSE Undefined

RemoveAt(seq, i) == SubSeq(seq, 1, i - 1) \o SubSeq(seq, i + 1, Len(seq))

\* openDetails, up to its await
OpenDetails(id) ==
  /\ UserEvent
  /\ id \in RenderedPlants
  /\ detailsLoading' = TRUE
  /\ selectedPlant' = Undefined
  /\ detailsInFlight' = Append(detailsInFlight, id)
  /\ lastOpened' = Some(id)
  /\ UNCHANGED <<favVars, revision, twin, shownBefore, route, uncaught,
                 searchInput, search, timer, filters, showFavorites,
                 scrollIndex, showScrollTop, cache, lastInput, call,
                 staleSettled>>

\* const details = await fetchPlantDetails(plant.id); setSelectedPlant(details);
\* a rejection skips the assignment
selectedAfterAwait_DropsDetails(outcome, selected) == selected
selectedAfterAwait(outcome, selected) ==
  IF outcome.kind = "data" THEN Some(outcome.data) ELSE selected

\* try { ... } finally { ... } has no catch: a rejection of fetchPlantDetails
\* leaves openDetails as the rejection of its own promise, which onClick drops
uncaughtAfterAwait_Caught(outcome, n) == n
uncaughtAfterAwait(outcome, n) == IF outcome.kind = "error" THEN n + 1 ELSE n

\* finally { setDetailsLoading(false); }: on either way out of the try block
loadingAfterAwait_NoFinally(outcome) == outcome.kind = "error"
loadingAfterAwait(outcome) == FALSE

\* openDetails, from the await on: the i-th call in flight gets its response
DetailsSettle(i, response) ==
  /\ ~favEffectPending
  /\ i \in 1..Len(detailsInFlight)
  /\ selectedPlant' =
       selectedAfterAwait(apiOutcome("fetchPlantDetails", response), selectedPlant)
  /\ uncaught' =
       uncaughtAfterAwait(apiOutcome("fetchPlantDetails", response), uncaught)
  /\ detailsLoading' = loadingAfterAwait(apiOutcome("fetchPlantDetails", response))
  /\ detailsInFlight' = RemoveAt(detailsInFlight, i)
  /\ UNCHANGED <<favVars, revision, twin, lastOpened, shownBefore, route,
                 searchInput, search, timer, filters, showFavorites,
                 scrollIndex, showScrollTop, cache, lastInput, userEvents,
                 call, staleSettled>>

\* <Dialog onOpenChange={() => setSelectedPlant(null)}>: the user dismisses it
DismissDialog ==
  /\ UserEvent
  /\ DialogOpen
  /\ selectedPlant' = Undefined
  /\ UNCHANGED <<favVars, revision, twin, lastOpened, shownBefore, route,
                 uncaught, searchInput, search, timer, filters, showFavorites,
                 detailsLoading, detailsInFlight, scrollIndex, showScrollTop,
                 cache, lastInput, call, staleSettled>>

----------------------------------------------------------------------------
(* Page reload: everything but localStorage starts over *)

Reload ==
  /\ userEvents < MaxUserEvents
  /\ userEvents' = userEvents + 1
  /\ RemountFavorites
  /\ searchInput' = ""
  /\ search' = ""
  /\ timer' = StartTimer("")
  /\ filters' = InitialFilters
  /\ showFavorites' = FALSE
  /\ selectedPlant' = Undefined
  /\ detailsLoading' = FALSE
  /\ detailsInFlight' = <<>>
  /\ scrollIndex' = 0
  /\ showScrollTop' = FALSE
  /\ cache' = Observe(EmptyCache, InitialKey)
  /\ lastInput' = "none"
  /\ staleSettled' = FALSE
  /\ uncaught' = 0
  /\ shownBefore' = NoShown
  /\ lastOpened' = Undefined
  /\ UNCHANGED <<revision, twin, route, call>>

Next ==
  \/ \E text \in SearchTexts : TypeSearch(text)
  \/ ClearSearch
  \/ \E name \in FilterNames : \E value \in FilterValues(name) : SetFilter(name, value)
  \/ DebounceFire
  \/ ToggleShowFavorites
  \/ \E id \in PlantIds : ClickFavorite(id)
  \/ PersistEffect
  \/ InfiniteScrollTrigger
  \/ \E key \in DOMAIN cache :
       \E response \in ListResponses(cache[key].request, cache[key].pageParam) :
         FetchSettle(key, response)
  \/ \E first \in 0..(PerPage * LastPage) : Scroll(first)
  \/ \E id \in PlantIds : OpenDetails(id)
  \/ \E i \in 1..Len(detailsInFlight) :
       \E response \in DetailsResponses(detailsInFlight[i]) : DetailsSettle(i, response)
  \/ DismissDialog
  \/ Reload

Spec == Init /\ [][Next]_vars

----------------------------------------------------------------------------
(* A later visit: favorites of an earlier session are in storage, the first     *)
(* result has been loaded to its last page and the list is scrolled to its end *)

\* the favorites an earlier session left behind
SessionFavorites == {<<>>, <<3, 1>>}

RECURSIVE LoadPages(_, _, _)
\* the query of `key` after its pages up to page n have arrived, one by one
LoadPages(key, q, n) ==
  IF n = 0 THEN q
  ELSE LET before == LoadPages(key, q, n - 1)
           fetching == IF n = 1 THEN before ELSE fetchNextPage(key, before)
       IN OnResolved(key, fetching, ServerPage(fetching.request, n))

LoadedCache ==
  [k \in {InitialKey} |-> LoadPages(InitialKey, FirstFetch(InitialKey), LastPage)]

\* the loaded list, scrolled to row `first`, with the openDetails calls of
\* `inFlight` awaiting their responses
InitLoaded(first, inFlight) ==
  /\ revision \in Revisions
  /\ route = IndexRoute
  /\ uncaught = 0
  /\ shownBefore = NoShown
  /\ lastOpened = IF inFlight = <<>> THEN Undefined ELSE Some(inFlight[Len(inFlight)])
  /\ \E favs \in SessionFavorites :
       storage = persistEffect(EmptyStore, favs)
  /\ favorites = useFavoritesInit(storage)
  /\ favEffectPending = FALSE
  /\ toggleLog = <<>>
  /\ reloaded = NoReload
  /\ searchInput = ""
  /\ search = ""
  /\ timer = NoTimer
  /\ filters = InitialFilters
  /\ showFavorites = FALSE
  /\ selectedPlant = Undefined
  /\ detailsLoading = (inFlight # <<>>)
  /\ detailsInFlight = inFlight
  /\ scrollIndex = first
  /\ showScrollTop = (scrollIndex * RowHeight > ScrollTopThreshold)
  /\ cache = LoadedCache
  /\ twin = TwinInit
  /\ lastInput = "none"
  /\ userEvents = 0
  /\ staleSettled = FALSE
  /\ call = NoCall

InitSession == InitLoaded(Max(0, PerPage * (LastPage - 1) - VisibleRows), <<>>)

SpecSession == InitSession /\ [][Next]_vars

----------------------------------------------------------------------------
(* The search box, the filters and the list query, with the timeout and the   *)
(* effects sure to run: a timeout that stays pending fires, an effect that is  *)
(* pending runs                                                                *)

NextDebounce ==
  \/ \E text \in SearchTexts : TypeSearch(text)
  \/ ClearSearch
  \/ \E name \in FilterNames : \E value \in FilterValues(name) : SetFilter(name, value)
  \/ DebounceFire
  \/ PersistEffect
  \/ \E key \in DOMAIN cache :
       \E response \in ListResponses(cache[key].request, cache[key].pageParam) :
         FetchSettle(key, response)

SpecDebounce ==
  /\ Init
  /\ [][NextDebounce]_vars
  /\ WF_vars(DebounceFire)
  /\ WF_vars(PersistEffect)

----------------------------------------------------------------------------
(* The details dialog over a loaded list, every details request being answered *)

DetailsArrive ==
  \E i \in 1..Len(detailsInFlight) :
    \E response \in DetailsResponses(detailsInFlight[i]) : DetailsSettle(i, response)

NextDetails ==
  \/ \E first \in 0..(PerPage * LastPage) : Scroll(first)
  \/ \E id \in PlantIds : OpenDetails(id)
  \/ DetailsArrive
  \/ DismissDialog

SpecDetails == InitSession /\ [][NextDetails]_vars /\ WF_vars(DetailsArrive)

\* a card was clicked, its details are still being fetched, and the list has
\* been scrolled since
InitOverlap ==
  \E id \in PlantIds : \E first \in 0..(PerPage * LastPage - VisibleRows) :
    InitLoaded(first, <<id>>)

SpecOverlap == InitOverlap /\ [][NextDetails]_vars /\ WF_vars(DetailsArrive)

----------------------------------------------------------------------------
(* useFavorites alone, over whatever a browser may hold under the key *)

BoundedSeq(S, n) == UNION {[1..k -> S] : k \in 0..n}

Prefixes(text) == {SubSeq(text, 1, k) : k \in 0..(Len(text) - 1)}

\* the arrays a previous session may have stored, and those texts cut short
StoredArrays == {JSONstringify(items) : items \in BoundedSeq(1..MaxFavId, MaxStored)}
StoredTexts == StoredArrays \cup UNION {Prefixes(text) : text \in StoredArrays}

InitialStores ==
  {EmptyStore} \cup {[k \in {FAVORITES_KEY} |-> text] : text \in StoredTexts}

InitFav ==
  /\ revision \in Revisions
  /\ route = IndexRoute
  /\ uncaught = 0
  /\ shownBefore = NoShown
  /\ lastOpened = Undefined
  /\ storage \in InitialStores
  /\ favorites = useFavoritesInit(storage)
  /\ favEffectPending = TRUE
  /\ toggleLog = <<>>
  /\ reloaded = NoReload
  /\ searchInput = ""
  /\ search = ""
  /\ timer = StartTimer("")
  /\ filters = InitialFilters
  /\ showFavorites = FALSE
  /\ selectedPlant = Undefined
  /\ detailsLoading = FALSE
  /\ detailsInFlight = <<>>
  /\ scrollIndex = 0
  /\ showScrollTop = FALSE
  /\ cache = Observe(EmptyCache, InitialKey)
  /\ twin = TwinInit
  /\ lastInput = "none"
  /\ userEvents = 0
  /\ staleSettled = FALSE
  /\ call = NoCall

NextFav ==
  \/ \E id \in 1..MaxFavId : ToggleFavorite(id) /\ UNCHANGED <<uiVars, call>>
  \/ PersistFavorites /\ UNCHANGED <<uiVars, call>>
  \/ RemountFavorites /\ UNCHANGED <<uiVars, call>>

SpecFav == InitFav /\ [][NextFav]_vars

----------------------------------------------------------------------------
(* Paging on its own: the component is mounted with the favorites of an     *)
(* earlier session in storage, every response is a page, and the effects    *)
(* and the responses are not held back forever                              *)

InitAutoPage ==
  \E favs \in SessionFavorites : InitMounted(persistEffect(EmptyStore, favs))

\* the request of a query in flight is answered with its page
FetchSucceed ==
  \E key \in DOMAIN cache :
    \E response \in ListResponses(cache[key].request, cache[key].pageParam) :
      /\ ~response.failed
      /\ ResponseOk(response.status)
      /\ FetchSettle(key, response)

NextAutoPage ==
  \/ ToggleShowFavorites
  \/ \E id \in PlantIds : ClickFavorite(id)
  \/ \E first \in 0..(PerPage * LastPage) : Scroll(first)
  \/ PersistEffect
  \/ DebounceFire
  \/ InfiniteScrollTrigger
  \/ FetchSucceed

SpecAutoPage ==
  /\ InitAutoPage
  /\ [][NextAutoPage]_vars
  /\ WF_vars(PersistEffect)
  /\ WF_vars(InfiniteScrollTrigger)
  /\ WF_vars(FetchSucceed)

----------------------------------------------------------------------------
(* The two revisions side by side: the mounted one in the variables of the  *)
(* component, the other one in twin.  Both get the same changes of the      *)
(* search box and the filters; a firing of the timeout fires it in each     *)
(* revision where one is pending; a response settles the query in both.     *)

MaxRevisionEvents == 2

Other(rev) == CHOOSE r \in Revisions : r # rev
TwinKey == queryKey(twin.search, filters)

\* nothing but the search box, the filters, the timeouts and the queries
\* takes part
RevisionRest ==
  UNCHANGED <<favVars, revision, lastOpened, shownBefore, route, uncaught,
              showFavorites, selectedPlant, detailsLoading, detailsInFlight,
              scrollIndex, showScrollTop, lastInput, staleSettled, call>>

RevisionEvent ==
  /\ userEvents < MaxRevisionEvents
  /\ userEvents' = userEvents + 1
  /\ RevisionRest

RevTypeSearch(text) ==
  /\ RevisionEvent
  /\ text # searchInput
  /\ searchInput' = text
  /\ timer' = StartTimer(text)
  /\ twin' = [twin EXCEPT !.timer = StartTimer(text)]
  /\ UNCHANGED <<search, filters, cache>>

RevClearSearch ==
  /\ RevisionEvent
  /\ searchInput' = ""
  /\ timer' = timerAfterClear(searchInput, timer)
  /\ twin' = [twin EXCEPT !.timer = timerAfterClear(searchInput, @)]
  /\ UNCHANGED <<search, filters, cache>>

RevSetFilter(name, value) ==
  /\ RevisionEvent
  /\ value # filters[name]
  /\ filters' = [filters EXCEPT ![name] = value]
  /\ timer' = timerAfterFilter(revision, searchInput, timer)
  /\ cache' = MoveObserver(cache, QueryKey, queryKey(search, filters'))
  /\ twin' = [twin EXCEPT
               !.timer = timerAfterFilter(Other(revision), searchInput, @),
               !.cache = MoveObserver(@, TwinKey, queryKey(twin.search, filters'))]
  /\ UNCHANGED <<searchInput, search>>

RevDebounceFire ==
  /\ timer.pending \/ twin.timer.pending
  /\ search' = IF timer.pending THEN debounced(timer.value, search) ELSE search
  /\ timer' = NoTimer
  /\ cache' = MoveObserver(cache, QueryKey, queryKey(search', filters))
  /\ LET s == IF twin.timer.pending THEN debounced(twin.timer.value, twin.search)
              ELSE twin.search
     IN twin' = [search |-> s, timer |-> NoTimer,
                 cache |-> MoveObserver(twin.cache, TwinKey, queryKey(s, filters))]
  /\ UNCHANGED <<searchInput, filters, userEvents>>
  /\ RevisionRest

RevFetchSettle(key, response) ==
  /\ cache[key].fetchStatus = "fetching"
  /\ cache' = settled(cache, key, queryFnOutcome(revision, response))
  /\ twin' = IF key \in DOMAIN twin.cache /\ twin.cache[key].fetchStatus = "fetching"
               THEN [twin EXCEPT !.cache =
                       settled(@, key, queryFnOutcome(Other(revision), response))]
             ELSE twin
  /\ UNCHANGED <<searchInput, search, timer, filters, userEvents>>
  /\ RevisionRest

NextRevisions ==
  \/ \E text \in SearchTexts : RevTypeSearch(text)
  \/ RevClearSearch
  \/ \E name \in FilterNames : \E value \in FilterValues(name) :
       RevSetFilter(name, value)
  \/ RevDebounceFire
  \/ \E key \in DOMAIN cache :
       \E response \in ListResponses(cache[key].request, cache[key].pageParam) :
         RevFetchSettle(key, response)

SpecRevisions == Init /\ [][NextRevisions]_vars

----------------------------------------------------------------------------
(* The REST wrapper alone: each function on each response *)

ApiBodies(n) ==
  { [parseable |-> TRUE,
     value |-> [data |-> <<n>>, current_page |-> n, last_page |-> LastPage]],
    NoBody }

ApiResponses(n) ==
  {[failed |-> FALSE, status |-> st, body |-> b] : st \in HttpStatuses, b \in ApiBodies(n)}
  \cup {[failed |-> TRUE, status |-> 0, body |-> NoBody]}

\* one of the five functions is called and its promise settles
CallApi(fn, n, response) ==
  /\ call = NoCall
  /\ call' = [NoCall EXCEPT !.fn = fn, !.n = n, !.url = RequestUrl(fn, n),
                            !.response = response,
                            !.outcome = apiOutcome(fn, response)]
  /\ UNCHANGED <<favVars, uiVars>>

\* every value a filter can take in the model
AllFilters ==
  [cycle : Tried(CYCLE_OPTIONS), watering : Tried(WATERING_OPTIONS),
   sunlight : Tried(SUNLIGHT_OPTIONS), edible : BOOLEAN, poisonous : BOOLEAN,
   indoor : BOOLEAN, hardiness : Tried(HARDINESS_OPTIONS)]

\* the component, rendered with search text s and filters f, requests a page
CallQueryFn(s, f, pageParam) ==
  /\ call = NoCall
  /\ LET request == queryFnRequest(queryKey(s, f), pageParam) IN
     call' = [NoCall EXCEPT !.fn = "queryFn", !.n = pageParam, !.search = s,
                            !.filters = f, !.request = request,
                            !.url = fetchPlantsUrl(request)]
  /\ UNCHANGED <<favVars, uiVars>>

\* the query function of the revision with toasts is called and settles
CallToastQueryFn(s, f, pageParam, response) ==
  /\ call = NoCall
  /\ LET request == queryFnRequest(queryKey(s, f), pageParam)
         result == toastQueryFn(apiOutcome("fetchPlants", response))
     IN call' = [NoCall EXCEPT !.fn = "toastQueryFn", !.n = pageParam, !.search = s,
                               !.filters = f, !.request = request,
                               !.url = fetchPlantsUrl(request),
                               !.response = response, !.outcome = result.outcome,
                               !.toasts = result.toasts]
  /\ UNCHANGED <<favVars, uiVars>>

NextApi ==
  \/ \E fn \in ApiFunctions : \E n \in PlantIds : \E response \in ApiResponses(n) :
       CallApi(fn, n, response)
  \/ \E s \in SearchTexts : \E f \in AllFilters : \E pageParam \in 1..LastPage :
       CallQueryFn(s, f, pageParam)
  \/ \E s \in SearchTexts : \E f \in AllFilters : \E pageParam \in 1..LastPage :
       \E response \in ListResponses(queryFnRequest(queryKey(s, f), pageParam),
                                     pageParam) \cup ApiResponses(pageParam) :
         CallToastQueryFn(s, f, pageParam, response)

SpecApi == Init /\ [][NextApi]_vars

----------------------------------------------------------------------------
(* Favorites: claims C1 to C4, checked under SpecFav *)

Range(seq) == {seq[i] : i \in 1..Len(seq)}

\* the last two toggleFavorite calls were for the same id
ToggledTwice == Len(toggleLog) = 2 /\ toggleLog[1].id = toggleLog[2].id

NoDuplicates(seq) == \A i, j \in 1..Len(seq) : i # j => seq[i] # seq[j]

\* C1 as stated: after toggleFavorite(id) twice in succession the favorites list
\* is exactly the list held before the first call.  (Stated for the lists that
\* hold no id twice, the ones the component writes itself: it fails already there.)
C1_TwiceRestoresList ==
  (ToggledTwice /\ NoDuplicates(toggleLog[1].before)) =>
    favorites = toggleLog[1].before

\* C1 as amended: after toggleFavorite(id) twice in succession the favorites hold
\* the same set of ids as before the first call; the list itself is the old list
\* when id was not in it, and otherwise the old list with every occurrence of id
\* removed and id appended at the end.
C1_TwiceRestoresSet ==
  ToggledTwice =>
    LET id == toggleLog[1].id
        before == toggleLog[1].before
    IN /\ Range(favorites) = Range(before)
       /\ favorites = IF id \in Range(before)
                        THEN Append(SelectSeq(before, LAMBDA x : x # id), id)
                        ELSE before

\* C1's case: an id that was in the list, but not at its end, was toggled twice
C1_Witness ==
  /\ ToggledTwice
  /\ toggleLog[1].id \in Range(toggleLog[1].before)
  /\ favorites # toggleLog[1].before

\* C2: in every reachable state, the one read from storage at mount included,
\* favorites is a list of integers that contains no value twice.
C2_FavoritesIsSetOfIntegers ==
  /\ \A i \in 1..Len(favorites) : favorites[i] \in Int
  /\ NoDuplicates(favorites)

\* C3: once the effect has run, the text stored under 'plant_favorites' is the
\* JSON array of the favorites held in memory, and no other key is ever written.
C3_StoredIsJsonOfFavorites ==
  /\ DOMAIN storage \subseteq {FAVORITES_KEY}
  /\ ~favEffectPending =>
       /\ FAVORITES_KEY \in DOMAIN storage
       /\ storage[FAVORITES_KEY] = JSONstringify(favorites)
       /\ JSONparse(storage[FAVORITES_KEY]) = [ok |-> TRUE, value |-> favorites]

\* C3's case: favorites were toggled, down to the empty list, and the effect ran
C3_Witness ==
  /\ ~favEffectPending
  /\ Len(toggleLog) = 2
  /\ favorites = <<>>
  /\ FAVORITES_KEY \in DOMAIN storage
  /\ storage[FAVORITES_KEY] = <<"[", "]">>

\* C4: a reload after the effect has run starts with the favorites held before
\* it, the same ids in the same order.
C4_ReloadRestores ==
  (reloaded.done /\ reloaded.persisted) => favorites = reloaded.before

\* C4's case: two ids were toggled on, the effect ran, the page was reloaded
C4_Witness ==
  /\ reloaded.done
  /\ reloaded.persisted
  /\ reloaded.toggles = 2
  /\ Len(reloaded.before) >= 2
  /\ favorites = reloaded.before

----------------------------------------------------------------------------
(* The list query: claims C5 to C8, checked under Spec *)

\* every page shown answers a request built from the given search text and filters
ShownPagesAnswer(s, f) ==
  \A i \in 1..Len(data) :
    data[i].request = fetchPlantsParams(queryFnArgs(s, f, data[i].pageParam))

\* C5: after Clear, once the timeout has fired with no further input, the
\* query's search text is '' and every page shown answers a request for the
\* empty search under the current filters.
C5_ClearResetsResults ==
  (lastInput = "clear" /\ ~timer.pending) =>
    /\ search = ""
    /\ KeySearch(QueryKey) = ""
    /\ ShownPagesAnswer("", filters)
    /\ \A i \in 1..Len(data) : "q" \notin ParamNames(data[i].request)

\* C5's case: results of the search 'a' had been loaded, then the search was
\* cleared, the timeout fired, and the results of the empty search are shown
C5_Witness ==
  /\ lastInput = "clear"
  /\ ~timer.pending
  /\ search = ""
  /\ data # <<>>
  /\ \E key \in DOMAIN cache : KeySearch(key) = "a" /\ cache[key].pages # <<>>

\* a step in which the state of a query other than the current one changes
SupersededQueryChanges ==
  /\ QueryKey' = QueryKey
  /\ \E key \in DOMAIN cache \cap DOMAIN cache' :
       key # QueryKey /\ cache'[key] # cache[key]

\* C6: the list shown consists only of pages returned for requests of the
\* current query key, and a response for a superseded key never changes it.
C6_CurrentKeyWins ==
  /\ [](ShownPagesAnswer(search, filters))
  /\ [][SupersededQueryChanges => (data' = data /\ FilteredPlants' = FilteredPlants)]_vars

\* C6's case: a page arrived for a superseded query while the current query
\* shows its own pages
C6_Witness ==
  /\ staleSettled
  /\ data # <<>>
  /\ \E key \in DOMAIN cache : key # QueryKey /\ cache[key].pages # <<>>

\* the handlers that C7 names: favorites, the favorites view, the dialog, scrolling
FrameStep ==
  \/ ToggleShowFavorites
  \/ \E id \in PlantIds : ClickFavorite(id)
  \/ PersistEffect
  \/ \E id \in PlantIds : OpenDetails(id)
  \/ \E i \in 1..Len(detailsInFlight) :
       \E response \in DetailsResponses(detailsInFlight[i]) : DetailsSettle(i, response)
  \/ DismissDialog
  \/ \E first \in 0..(PerPage * LastPage) : Scroll(first)

\* C7: the query key changes exactly when the search text or one of the seven
\* filter values changes; toggling showFavorites or a favorite, opening or
\* closing the dialog and scrolling leave it, and the cache entry in use, alone.
C7_KeyIsSearchAndFilters ==
  [][/\ (QueryKey' = QueryKey) <=> (search' = search /\ filters' = filters)
     /\ FrameStep => (QueryKey' = QueryKey /\ cache' = cache)]_vars

\* C7's case: two of the handlers named have acted (the favorites view with a
\* favorite set, or the dialog with the list scrolled, or the favorites view with
\* the dialog) and the key is still the one the component started with
C7_Witness ==
  /\ QueryKey = InitialKey
  /\ \/ showFavorites /\ favorites # <<>>
     \/ DialogOpen /\ scrollIndex > 0
     \/ showFavorites /\ DialogOpen

\* C8 as stated: there is no retry; a failed request is not issued again and the
\* error outcome follows exactly one request.
C8_NoRetry ==
  \A key \in DOMAIN cache :
    /\ cache[key].fetchStatus = "fetching" => cache[key].fetchFailureCount = 0
    /\ cache[key].fetchFailureCount <= 1

\* C8 as amended: the REST wrapper never retries, but the query client does: a
\* page request of the query on screen that fails is issued again, up to
\* DefaultRetry times, and that query reaches its error outcome only after
\* DefaultRetry + 1 failed requests.  A query whose key was replaced while it was
\* fetching is not retried: it ends in error at its next failure.
C8_ErrorAfterDefaultRetries ==
  /\ \A key \in DOMAIN cache :
       /\ cache[key].fetchStatus = "fetching" =>
            cache[key].fetchFailureCount <= DefaultRetry
       /\ (cache[key].fetchStatus = "idle" /\ cache[key].status = "error") =>
            cache[key].fetchFailureCount \in 1..(DefaultRetry + 1)
       /\ cache[key].retryCancelled => key # QueryKey
  /\ (Query.fetchStatus = "idle" /\ status = "error") =>
       Query.fetchFailureCount = DefaultRetry + 1

\* C8's case: the query on screen has ended in error
C8_Witness ==
  /\ Query.fetchStatus = "idle"
  /\ status = "error"
  /\ data = <<>>
  /\ Query.fetchFailureCount = DefaultRetry + 1

----------------------------------------------------------------------------
(* The REST wrapper: claims C9 and C10, checked under SpecApi *)

\* C9: each of the five functions rejects, with no data, when the response is
\* not ok, and yields the parsed body when it is ok.
C9_NotOkRejects ==
  (call.fn \in ApiFunctions /\ ~call.response.failed) =>
    /\ ~ResponseOk(call.response.status) =>
         /\ call.outcome.kind = "error"
         /\ call.outcome.message = FailureMessage(call.fn)
         /\ call.outcome.data = NoValue
    /\ (ResponseOk(call.response.status) /\ call.response.body.parseable) =>
         /\ call.outcome.kind = "data"
         /\ call.outcome.data = call.response.body.value

\* C9's case: a function other than fetchPlants got a 404 whose body is JSON
C9_Witness ==
  /\ call.fn = "fetchHardinessMap"
  /\ call.response.status = 404
  /\ call.response.body.parseable
  /\ call.outcome.kind = "error"

HasParam(request, name, value) ==
  \E i \in 1..Len(request) : request[i] = <<name, value>>
ParamCount(request, name) ==
  Cardinality({i \in 1..Len(request) : request[i][1] = name})

\* a select's parameter is sent, with the selected value, exactly when it is not 'any'
SelectSent(request, name, selected) ==
  IF selected = "any" THEN ParamCount(request, name) = 0
  ELSE ParamCount(request, name) = 1 /\ HasParam(request, name, selected)

\* a switch's parameter is sent, with the value '1', exactly when it is on
SwitchSent(request, name, on) ==
  IF on THEN ParamCount(request, name) = 1 /\ HasParam(request, name, "1")
  ELSE ParamCount(request, name) = 0

\* C10: the species-list request carries key and page; cycle, watering, sunlight
\* and hardiness exactly when not 'any'; edible, poisonous and indoor as '1'
\* exactly when on; q exactly when the search text is not empty.
C10_RequestParams ==
  call.fn = "queryFn" =>
    LET r == call.request
        f == call.filters
    IN /\ HasParam(r, "key", API_KEY) /\ ParamCount(r, "key") = 1
       /\ HasParam(r, "page", String(call.n)) /\ ParamCount(r, "page") = 1
       /\ SelectSent(r, "cycle", f.cycle)
       /\ SelectSent(r, "watering", f.watering)
       /\ SelectSent(r, "sunlight", f.sunlight)
       /\ SelectSent(r, "hardiness", f.hardiness)
       /\ SwitchSent(r, "edible", f.edible)
       /\ SwitchSent(r, "poisonous", f.poisonous)
       /\ SwitchSent(r, "indoor", f.indoor)
       /\ IF call.search = "" THEN ParamCount(r, "q") = 0
          ELSE ParamCount(r, "q") = 1 /\ HasParam(r, "q", call.search)
       /\ ParamNames(r) \subseteq
            {"key", "page", "q"} \cup FilterNames

\* C10's case: a search text, a select off 'any', one switch on and one off
C10_Witness ==
  /\ call.fn = "queryFn"
  /\ call.search = "a"
  /\ call.filters.cycle # "any"
  /\ call.filters.edible
  /\ ~call.filters.indoor
  /\ call.n = 2
  /\ call.url = BASE_URL \o "/species-list?key=" \o API_KEY
                  \o "&page=2&q=a&edible=1&cycle=perennial"

----------------------------------------------------------------------------
(* The debounce: claims C15 and C16, checked under SpecDebounce *)

\* a step in which a fetch begins for the query `key`
FetchStarts(key) ==
  /\ key \in DOMAIN cache'
  /\ cache'[key].fetchStatus = "fetching"
  /\ key \in DOMAIN cache => cache[key].fetchStatus = "idle"

\* C15: the query's search text changes only when the pending timeout fires, and
\* then to the text in the search box: the timeout pending always carries the
\* latest text, so a text replaced before its timeout fired never becomes the
\* search text; a fetch begins only for the key in use, so none is made for such
\* a text; and once input has stopped the search text comes to equal searchInput.
C15_SearchDebounced ==
  /\ [](timer.pending => timer.value = searchInput)
  /\ [](~timer.pending => search = searchInput)
  /\ [][/\ search' # search =>
             (timer.pending /\ ~timer'.pending /\ search' = searchInput
              /\ searchInput' = searchInput)
        /\ \A key \in DOMAIN cache' : FetchStarts(key) => key = QueryKey']_vars
  /\ <>[](search = searchInput)

\* C15's case: 'a' was typed and cleared before its timeout fired; the timeout
\* of the clearing has fired, and no query was ever made for 'a'
C15_Witness ==
  /\ lastInput = "clear"
  /\ userEvents = 2
  /\ ~timer.pending
  /\ search = ""
  /\ \A key \in DOMAIN cache : KeySearch(key) = ""

\* C16: in the revision whose effect is commented "Debounce search and
\* filters", a change of a filter neither changes the query key nor begins a
\* fetch in the step that makes it; both wait for the timeout.
C16_FiltersDebounced ==
  [][(revision = "effect" /\ filters' # filters) =>
       /\ QueryKey' = QueryKey
       /\ \A key \in DOMAIN cache' : ~FetchStarts(key)]_vars

----------------------------------------------------------------------------
(* Pagination: claims C13 and C14, checked under SpecSession *)

\* the page a query is requesting follows a page that announced it
FollowsPage(q, before) ==
  /\ before.current_page < before.last_page
  /\ q.pageParam = before.current_page + 1
  /\ q.pageParam <= before.last_page

\* the pages a query holds are the pages 1, 2, ... of its result, in order
PagesInOrder(q) ==
  \A i \in 1..Len(q.pages) :
    /\ q.pages[i].pageParam = i
    /\ q.pages[i].current_page = i
    /\ HasParam(q.pages[i].request, "page", String(i))
    /\ i > 1 => q.pages[i - 1].current_page < q.pages[i - 1].last_page

\* C13 as stated: pages are requested in consecutive order from page 1, page
\* n + 1 only after page n arrived with current_page < last_page, never beyond
\* last_page, and never twice for one cache entry: the page being requested is
\* always the one after the pages held, and is requested once.
C13_EachPageOnce ==
  \A key \in DOMAIN cache :
    LET q == cache[key] IN
    /\ PagesInOrder(q)
    /\ q.fetchStatus = "fetching" =>
         /\ q.pageParam = Len(q.pages) + 1
         /\ q.fetchFailureCount = 0
         /\ q.pages # <<>> => FollowsPage(q, q.pages[Len(q.pages)])

\* C13 as amended: within one fetch, pages are requested in consecutive order:
\* the first fetch asks for page 1, fetchNextPage for the page after the last one
\* held, which announced it (current_page < last_page), and never for a page
\* beyond last_page; the pages held are pages 1..n in order and the list shown
\* is their concatenation.  A page can be requested again: after a failed
\* request (retry), and when a query that holds pages is fetched again, which
\* asks for its pages from page 1 on, in order.
C13_PagesInOrder ==
  /\ \A key \in DOMAIN cache :
       LET q == cache[key] IN
       /\ PagesInOrder(q)
       /\ q.fetchStatus = "fetching" =>
            /\ HasParam(q.request, "page", String(q.pageParam))
            /\ CASE q.direction = "initial" -> q.pageParam = 1 /\ q.pages = <<>>
                 [] q.direction = "forward" ->
                      /\ q.pageParam = Len(q.pages) + 1
                      /\ FollowsPage(q, q.pages[Len(q.pages)])
                 [] q.direction = "refetch" ->
                      /\ q.pageParam = Len(q.fresh) + 1
                      /\ q.pageParam <= Len(q.pages)
                      /\ q.fresh # <<>> => FollowsPage(q, q.fresh[Len(q.fresh)])
  /\ allPlants = flatMap([i \in 1..Len(data) |-> ServerPage(data[i].request, i)])

\* C13's case: a query that holds both pages is fetched again; its page 1 has
\* arrived anew and page 2 is being requested
C13_Witness ==
  \E key \in DOMAIN cache :
    /\ cache[key].fetchStatus = "fetching"
    /\ cache[key].direction = "refetch"
    /\ Len(cache[key].pages) = LastPage
    /\ Len(cache[key].fresh) = 1
    /\ cache[key].pageParam = 2

\* a step in which a next-page fetch of the query `key` begins
NextPageStarts(key) ==
  /\ key \in DOMAIN cache \cap DOMAIN cache'
  /\ cache'[key].fetchStatus = "fetching"
  /\ cache'[key].direction = "forward"
  /\ \/ cache[key].fetchStatus # "fetching"
     \/ cache[key].direction # "forward"
     \/ cache'[key].fetchFailureCount < cache[key].fetchFailureCount

\* C14: a next-page fetch begins only for the query on screen, and only in a
\* state where the last row in the window has index >= filteredPlants.length - 1,
\* hasNextPage is true and isFetchingNextPage is false; so no next-page fetch of
\* that query begins while one is in flight, whatever scroll events, favorites
\* toggles and fetch completions come between.
C14_TriggerGuard ==
  [][\A key \in DOMAIN cache : NextPageStarts(key) =>
       /\ key = QueryKey
       /\ QueryKey' = QueryKey
       /\ count > 0
       /\ LastItemIndex >= Len(FilteredPlants) - 1
       /\ hasNextPage
       /\ ~isFetchingNextPage
       /\ cache[key].pages # <<>>
       /\ cache'[key].pageParam = Len(cache[key].pages) + 1]_vars

\* C14's case: a next-page request failed and is being retried, with the window
\* still at the end of the list: the trigger's condition on rows and
\* hasNextPage holds while the fetch is in flight
C14_Witness ==
  /\ isFetchingNextPage
  /\ Query.fetchFailureCount > 0
  /\ count > 0
  /\ LastItemIndex >= Len(FilteredPlants) - 1
  /\ hasNextPage

----------------------------------------------------------------------------
(* The details dialog: claims C11, C12 and C17, checked under Spec *)

\* a step of openDetails up to its await, for the plant id
OpensDetails(id) ==
  /\ detailsInFlight' = Append(detailsInFlight, id)

\* a step in which the i-th call in flight gets a response that is ok
DetailsSucceed(i) ==
  \E response \in DetailsResponses(detailsInFlight[i]) :
    /\ ResponseOk(response.status)
    /\ DetailsSettle(i, response)

\* C11: right after openDetails(p) the dialog is open and renders the skeleton,
\* no plant being selected; while loading it never renders a plant's details;
\* and when the fetch for p succeeds the dialog renders the details returned for
\* p's id.
C11_DetailsDialogPerPlant ==
  /\ [](detailsLoading => (DialogView = "skeleton" /\ DialogDetails = Undefined))
  /\ [][/\ \A id \in PlantIds : OpensDetails(id) =>
             (DialogOpen' /\ selectedPlant' = Undefined /\ DialogView' = "skeleton")
        /\ \A i \in 1..Len(detailsInFlight) : DetailsSucceed(i) =>
             (/\ DialogOpen'
              /\ DialogView' = "details"
              /\ DialogDetails' = Some([id |-> detailsInFlight[i]]))]_vars

\* C11's case: the list was scrolled, the card of plant 2 clicked, and its
\* details are rendered
C11_Witness ==
  /\ detailsInFlight = <<>>
  /\ DialogView = "details"
  /\ DialogDetails = Some([id |-> 2])

\* a step in which the i-th call in flight gets a response that is not ok
DetailsFail(i) ==
  \E response \in DetailsResponses(detailsInFlight[i]) :
    /\ ~ResponseOk(response.status)
    /\ DetailsSettle(i, response)

C12_ClickNavigates ==
  [][\A id \in PlantIds : OpensDetails(id) => route' # route]_vars

----------------------------------------------------------------------------
(* The query function with toasts: claim C18, checked under SpecApi *)

ToastCount(toasts, title) ==
  Cardinality({i \in 1..Len(toasts) : toasts[i].title = title})

\* C18: in the revision with toasts, a fetch attempt that fails shows one
\* 'API Error' toast and rejects with the very error fetchPlants rejected with;
\* one that succeeds resolves with the response unchanged, and shows the
\* 'No plants found' error toast exactly when the page has no data.
C18_ToastsAndPropagation ==
  call.fn = "toastQueryFn" =>
    LET api == apiOutcome("fetchPlants", call.response) IN
    /\ call.outcome = api
    /\ ToastCount(call.toasts, FetchingToast.title) = 1
    /\ api.kind = "error" =>
         /\ call.outcome.kind = "error"
         /\ ToastCount(call.toasts, "API Error") = 1
         /\ ToastCount(call.toasts, NoPlantsToast.title) = 0
         /\ \E i \in 1..Len(call.toasts) :
              call.toasts[i] = Toast("error", "API Error", api.message)
    /\ api.kind = "data" =>
         /\ call.outcome.data = call.response.body.value
         /\ ToastCount(call.toasts, "API Error") = 0
         /\ ToastCount(call.toasts, NoPlantsToast.title) =
              IF api.data.data = <<>> THEN 1 ELSE 0

\* C18's case: the request for indoor plants got an empty page: the page is
\* returned as it is and the 'No plants found' toast is shown
C18_Witness ==
  /\ call.fn = "toastQueryFn"
  /\ call.filters.indoor
  /\ call.outcome.kind = "data"
  /\ call.outcome.data.data = <<>>
  /\ call.toasts = <<FetchingToast, NoPlantsToast>>

----------------------------------------------------------------------------
(* The favorites view: claim C19, checked under SpecSession *)

RECURSIVE KeepIds(_, _)
KeepIds(plants, ids) ==
  IF plants = <<>> THEN <<>>
  ELSE (IF Head(plants) \in ids THEN <<Head(plants)>> ELSE <<>>)
         \o KeepIds(Tail(plants), ids)

C19_ToggledTwice ==
  /\ ~showFavorites
  /\ shownBefore.toggled
  /\ shownBefore.list = <<1, 3>>
  /\ shownBefore.plants = allPlants
  /\ FilteredPlants = <<1, 2, 3, 4>>

----------------------------------------------------------------------------
(* Mounting on an unusable stored value: claim C20, checked under SpecFav *)

\* the component has been mounted and its effect has not run yet
JustMounted == favEffectPending /\ toggleLog = <<>>

\* nothing is stored under the key, or what is stored is no JSON text
StoredUnusable ==
  \/ FAVORITES_KEY \notin DOMAIN storage
  \/ ~JSONparse(storage[FAVORITES_KEY]).ok

\* C20: when the stored value is absent or is not parseable JSON, favorites is
\* initialised to the empty list, and the mount-time effect overwrites the
\* stored value with the JSON of the empty list.
C20_UnusableStoreStartsEmpty ==
  /\ []((JustMounted /\ StoredUnusable) => favorites = <<>>)
  /\ [][(JustMounted /\ StoredUnusable /\ ~favEffectPending') =>
          /\ storage' = [storage EXCEPT ![FAVORITES_KEY] = <<"[", "]">>]
             \/ storage' = [k \in {FAVORITES_KEY} |-> <<"[", "]">>]
          /\ getItem(storage', FAVORITES_KEY) = <<"[", "]">>
          /\ favorites' = <<>>]_vars

\* C20's case: the component was mounted on a stored text cut short, "[1,2",
\* and started with no favorites
C20_Witness ==
  /\ JustMounted
  /\ FAVORITES_KEY \in DOMAIN storage
  /\ storage[FAVORITES_KEY] = <<"[", "1", ",", "2">>
  /\ favorites = <<>>

\* the component was mounted with nothing stored
C20_AbsentMounted ==
  /\ JustMounted
  /\ storage = EmptyStore
  /\ favorites = <<>>

----------------------------------------------------------------------------
(* The list area: claim C21, checked under Spec *)

\* C21: the list area shows the loading skeletons exactly while the query
\* status is 'pending', which is while the first page of the key is being
\* fetched, retries included; once that fetch has failed for good with no data
\* loaded, the list area shows 'No plants found.', the same content as for a
\* successful empty result.
C21_SkeletonsAndEmptyText ==
  /\ ListArea = "skeletons" <=> status = "pending"
  /\ status = "pending" <=> (Query.fetchStatus = "fetching" /\ data = <<>>)
  /\ (Query.fetchStatus = "idle" /\ status = "error" /\ data = <<>>) =>
       ListArea = "No plants found."
  /\ (status = "success" /\ allPlants = <<>>) => ListArea = "No plants found."

\* C21's case: the first page failed for good, nothing is loaded, and the list
\* area shows the empty text
C21_Witness ==
  /\ Query.fetchStatus = "idle"
  /\ status = "error"
  /\ data = <<>>
  /\ ListArea = "No plants found."

\* a successful empty page shows the same text
C21_EmptyResult ==
  /\ status = "success"
  /\ data # <<>>
  /\ allPlants = <<>>
  /\ ListArea = "No plants found."

----------------------------------------------------------------------------
(* The two revisions: claim C22, checked under SpecRevisions *)

C22_OneTimerPending == timer.pending # twin.timer.pending

----------------------------------------------------------------------------
(* Overlapping openDetails calls: claims C23 and C24, checked under         *)
(* SpecOverlap                                                              *)

\* C23 as stated: when openDetails(A) was followed by openDetails(B) before A's
\* fetch completed, then once all fetches have completed, each with success,
\* the dialog shows the details of B, the plant requested last, whatever the
\* order of the responses.
C23_LatestRequestShown ==
  (/\ detailsInFlight = <<>>
   /\ uncaught = 0
   /\ IsDefined(lastOpened)
   /\ IsDefined(selectedPlant)) => selectedPlant[1].id = lastOpened[1]

\* C24 as stated: in every reachable state detailsLoading is true if and only
\* if at least one details fetch started by openDetails is still in flight,
\* also when several openDetails calls overlap.
C24_LoadingIffInFlight == detailsLoading <=> detailsInFlight # <<>>

----------------------------------------------------------------------------
(* Dismissing the dialog: claim C25, checked under SpecDetails *)

\* C25 as stated: after the user dismisses the details dialog it is closed, and
\* it stays closed until the next openDetails call, also when it is dismissed
\* while a details fetch is in flight.
C25_DismissCloses ==
  /\ [][DismissDialog => ~DialogOpen']_vars
  /\ [][(~DialogOpen /\ DialogOpen') => \E id \in PlantIds : OpensDetails(id)]_vars

----------------------------------------------------------------------------
(* Paging through the favorites view: claim C26, checked under SpecAutoPage *)

\* the last row of the list, or the loader row, is inside the window
EndVisible == count > 0 /\ LastItemIndex >= Len(FilteredPlants) - 1

AllLoaded ==
  /\ ~hasNextPage
  /\ Len(data) = LastPage
  /\ \A i \in 1..Len(data) : data[i].current_page = i

\* C26: while showFavorites is on, more pages exist and the end of the
\* filtered list is inside the window, the trigger asks for the next page after
\* each page arrives, with no scroll event needed; with every fetch succeeding
\* this goes on until every page up to last_page is loaded and hasNextPage is
\* false, and no page is requested twice.
C26_FavoritesViewLoadsAll ==
  /\ (showFavorites /\ EndVisible /\ hasNextPage) ~>
       (~showFavorites \/ ~EndVisible \/ AllLoaded)
  /\ [](data # <<>> /\ ~hasNextPage => AllLoaded)
  /\ [](/\ \A i \in 1..Len(data) : data[i].pageParam = i
        /\ Query.fetchStatus = "fetching" => Query.pageParam = Len(data) + 1
        /\ Query.fetchFailureCount = 0)
  /\ [][NextPageStarts(QueryKey) =>
          /\ cache'[QueryKey].pageParam = Len(data) + 1
          /\ UNCHANGED scrollIndex]_vars

\* C26's case: the favorites view was switched on, nothing else was done and
\* nothing was scrolled, and every page has been loaded
C26_Witness ==
  /\ showFavorites
  /\ scrollIndex = 0
  /\ userEvents = 1
  /\ AllLoaded
  /\ Len(allPlants) = PerPage * LastPage

====
